---- MODULE Spec2Model ----
(***************************************************************************)
(* note_classification.py: chunk aggregation (_compute_wloss), the         *)
(* training()/validation pass, and the __main__ driver (configuration      *)
(* resolution, epoch loop, test pass).                                     *)
(*                                                                         *)
(* Real numbers (float64 tensors, Python floats) are fixed-point integers  *)
(* in units of 1/Scale.  The pretrained classifier, the tokenised data and *)
(* the command line are inputs: they are drawn from small sets.            *)
(***************************************************************************)
EXTENDS Integers, Sequences, FiniteSets, TLC

\* ------------------------------------------------------------------ bounds
MaxDocs == 2        \* rows of a dataset split
MaxChunks == 2      \* chunks of one windowed document
MaxBatch == 2       \* --batch_size
MaxEpochs == 1      \* --epochs
MaxDevices == 2     \* torch.cuda.device_count()

\* --n_classes
n_classes == 2
Classes == 0 .. (n_classes - 1)

\* ------------------------------------------------- fixed-point arithmetic
Scale == 10000
\* np.pi
Pi == 31416

Mul(a, b) == (a * b) \div Scale
Div(a, b) == (a * Scale) \div b

RECURSIVE IsqrtIn(_, _, _)
IsqrtIn(n, lo, hi) ==
  IF lo >= hi THEN lo
  ELSE LET m == (lo + hi + 1) \div 2
       IN IF m * m <= n THEN IsqrtIn(n, m, hi) ELSE IsqrtIn(n, lo, m - 1)

\* v ** .5
Sqrt(v) == IsqrtIn(v * Scale, 0, 46340)

RECURSIVE ExpSeries(_, _, _)
ExpSeries(t, k, term) ==
  IF term = 0 THEN 0
  ELSE term + ExpSeries(t, k + 1, (term * t) \div (Scale * k))

\* e ** (-t), t >= 0
RECURSIVE ExpNeg(_)
ExpNeg(t) ==
  IF t <= Scale THEN (Scale * Scale) \div ExpSeries(t, 1, Scale)
  ELSE Mul(ExpNeg(t \div 2), ExpNeg(t - (t \div 2)))

\* np.exp / torch.exp, only ever applied to y <= 0
exp(y) == ExpNeg(0 - y)

RECURSIVE AtanhSeries(_, _, _)
AtanhSeries(y, j, pow) ==
  IF pow = 0 THEN 0
  ELSE (pow \div j) + AtanhSeries(y, j + 2, Mul(Mul(pow, y), y))

\* natural logarithm, s >= 1
log(s) == LET y == Div(s - Scale, s + Scale) IN 2 * AtanhSeries(y, 1, y)

RECURSIVE SumSeq(_)
SumSeq(s) == IF s = << >> THEN 0 ELSE Head(s) + SumSeq(Tail(s))

RECURSIVE SumOver(_, _)
SumOver(f, S) ==
  IF S = {} THEN 0
  ELSE LET c == CHOOSE c \in S : TRUE IN f[c] + SumOver(f, S \ {c})

Min(a, b) == IF a <= b THEN a ELSE b
Max(a, b) == IF a >= b THEN a ELSE b
CeilDiv(a, b) == (a + b - 1) \div b

\* ------------------------------------------------------- tensor operations
\* torch.argmax over one row of logits: the first index holding the maximum
argmax(v) ==
  CHOOSE c \in Classes :
    /\ \A d \in Classes : v[c] >= v[d]
    /\ \A d \in Classes : d < c => v[d] < v[c]

\* torch.matmul(weights, logits): (1 x M) times (M x C) gives one row
matmul(weights, logits) ==
  [c \in Classes |->
     SumSeq([i \in 1 .. Len(logits) |-> Mul(weights[i], logits[i][c])])]

\* -log_softmax(row)[target]
NLL(row, target) ==
  LET m == CHOOSE m \in {row[c] : c \in Classes} : \A c \in Classes : row[c] <= m
      z == SumOver([c \in Classes |-> exp(row[c] - m)], Classes)
  IN  log(z) - (row[target] - m)

\* nn.functional.cross_entropy(input, target), reduction='mean'
cross_entropy(input, target) ==
  SumSeq([i \in 1 .. Len(input) |-> NLL(input[i], target[i])]) \div Len(input)

\* _normal_density(x, mu, sigma)
_normal_density(xx, mu, sigma) ==
  Mul(Div(Scale, Sqrt(Mul(2 * Pi, Mul(sigma, sigma)))),
      exp(0 - (Div(Mul(xx - mu, xx - mu), Mul(sigma, sigma)) \div 2)))

\* ------------------------------------------------------------------- state
VARIABLES
  pc,            \* position of the run
  err,           \* the exception that ended the run, or "none"
  argv,          \* the parsed command line as given
  config,        \* the argparse Namespace (config.weighting is reassigned)
  ws,            \* window size parsed from the dataset file name
  num_rows,      \* rows of data['train'], data['validation'], data['test']
  device_count,  \* torch.cuda.device_count()
  printed,       \* messages printed by configuration resolution
  net,           \* model mode, and optimizer / scheduler / backward counters
  epoch,         \* loop variable of the epoch loop
  call,          \* the frame of the running training() call
  ret,           \* tr_loss, val_loss, val_metrics of the last training() call
  test,          \* test_loss, test_metrics and the value written to writer_test
  calls,         \* history: argument pairs _compute_wloss was invoked with
  seen,          \* history: document decisions of the phase's stream so far
  shadow,        \* history: the validation step applied to the test stream
  eval_seen,     \* history: optimizer-step counts seen by validation forwards
  losses,        \* history: the distinct unit losses of the call's two streams
  probe          \* one direct call of _compute_wloss: its arguments and result

vars == << pc, err, argv, config, ws, num_rows, device_count, printed, net,
           epoch, call, ret, test, calls, seen, shadow, eval_seen, losses,
           probe >>

\* GPUS = max(torch.cuda.device_count(), 1)
GPUS == Max(device_count, 1)

\* Python truthiness of config.batch_size / batches: None and 0 are both
\* falsy and are both written 0 here
Truthy(b) == b # 0

\* ---------------------------------------------------------------- the data
\* chunks per document: one when the dataset has no window
ChunkCounts(wsv) == IF wsv = "None" THEN {1} ELSE 1 .. MaxChunks

\* one row of a dataset split: the chunks of a document and its label
Items(wsv) == [chunks : ChunkCounts(wsv), label : Classes]

\* logits the classifier can give one chunk: it favours one class
LogitVectors ==
  {[c \in Classes |-> IF c = k THEN Scale ELSE 0] : k \in Classes}

\* _collate_fn(batch): all chunks of one document, one label per chunk
_collate_fn(item) ==
  [n_rows |-> item.chunks, labels |-> [i \in 1 .. item.chunks |-> item.label]]

\* _collate_fn_batch(batch): the first chunk and the label of every document
_collate_fn_batch(items) ==
  [n_rows |-> Len(items), labels |-> [i \in 1 .. Len(items) |-> items[i].label]]

\* the documents the DataLoader takes next, given how many are left
NextItems(batch_size, wsv, left) ==
  IF Truthy(batch_size)
  THEN [1 .. Min(batch_size, left) -> Items(wsv)]
  ELSE [1 .. 1 -> Items(wsv)]

\* the DataLoader's collation of these documents
Collate(batch_size, items) ==
  IF Truthy(batch_size) THEN _collate_fn_batch(items) ELSE _collate_fn(items[1])

\* len(loader)
LoaderLen(batch_size, rows) ==
  IF Truthy(batch_size) THEN CeilDiv(rows, batch_size) ELSE rows

\* outputs = model(**batch): per-row logits, and the built-in loss (the mean
\* cross-entropy of the rows, one entry per replica under nn.DataParallel)
forward(batch, logits, devices) ==
  LET n == batch.n_rows
      piece(lo, hi) ==
        cross_entropy(SubSeq(logits, lo, hi), SubSeq(batch.labels, lo, hi))
      size == CeilDiv(n, Max(devices, 1))
  IN  [logits |-> logits,
       loss |-> IF devices > 1
                THEN [j \in 1 .. CeilDiv(n, size) |->
                        piece((j - 1) * size + 1, Min(j * size, n))]
                ELSE << piece(1, n) >>]

\* variant: positions centred on the midpoint
norm_dist_centred(i, mid) == Div((i - mid) * Scale, mid * Scale)

\* ---------------------------------------------------------- _compute_wloss
\* norm_dist[i] = i / mid
norm_dist(i, mid) == Div(i * Scale, mid * Scale)

\* variant: the Gaussian is applied to a single chunk as well
gaussian_weights_unguarded(M) ==
  LET mid == Max(M \div 2, 1)
  IN  [i \in 1 .. M |-> _normal_density(norm_dist(i - 1, mid), 0, Scale)]

\* the weights of the weighting branch, for a unit of M rows
gaussian_weights(M) ==
  LET mid == M \div 2
  IN  IF mid > 0
      THEN [i \in 1 .. M |-> _normal_density(norm_dist(i - 1, mid), 0, Scale)]
      ELSE << Scale >>

\* the weights depend on the number of rows alone: computed once per size
RECURSIVE WeightRows(_)
WeightRows(M) ==
  IF M = 0 THEN << >> ELSE Append(WeightRows(M - 1), gaussian_weights(M))
WeightTable == WeightRows(MaxChunks)
wloss_weights(batch) == WeightTable[batch.n_rows]

\* the weights of the branch without weighting and without batches
ones_weights(batch) == [i \in 1 .. Len(batch.labels) |-> Scale]

_compute_wloss(batch, outputs, batches, weighting_method) ==
  IF weighting_method
  THEN LET weights == wloss_weights(batch)
       IN  [wloss |-> << cross_entropy(<< matmul(weights, outputs.logits) >>,
                                       << batch.labels[1] >>) >>,
            output_logits |-> << matmul(weights, outputs.logits) >>]
  ELSE IF Truthy(batches)
       THEN [wloss |-> outputs.loss, output_logits |-> outputs.logits]
       ELSE LET weights == ones_weights(batch)
            IN  [wloss |-> << cross_entropy(<< matmul(weights, outputs.logits) >>,
                                            << batch.labels[1] >>) >>,
                 output_logits |-> << matmul(weights, outputs.logits) >>]

\* --------------------------------------------------------- metrics.TaskMetrics
\* TaskMetrics(challenge='smoking_challenge')
TaskMetrics ==
  [tp |-> [c \in Classes |-> 0], fp |-> [c \in Classes |-> 0],
   fn |-> [c \in Classes |-> 0]]

\* Python values handed to add_batch: an int (.item()) or a list (.tolist())
py_int(v) == [type |-> "int", v |-> v]
py_list(v) == [type |-> "list", v |-> v]
AsList(x) == IF x.type = "int" THEN << x.v >> ELSE x.v

RECURSIVE add_pairs(_, _, _)
add_pairs(m, gold, predicted) ==
  IF gold = << >> THEN m
  ELSE LET g == Head(gold)
           p == Head(predicted)
           m1 == IF g = p
                 THEN [m EXCEPT !.tp[g] = @ + 1]
                 ELSE [m EXCEPT !.fn[g] = @ + 1, !.fp[p] = @ + 1]
       IN  add_pairs(m1, Tail(gold), Tail(predicted))

\* add_batch(gold, predicted): a single pair or two equal-length sequences
add_batch(m, gold, predicted) == add_pairs(m, AsList(gold), AsList(predicted))

\* variant: a numpy division, which yields nan on 0 / 0 and does not raise
truediv_numpy(a, b) ==
  IF b = 0 THEN [raised |-> FALSE, nan |-> TRUE, value |-> 0]
  ELSE [raised |-> FALSE, nan |-> FALSE, value |-> a \div b]

\* ------------------------------------------------------ training(), by step
\* a Python true division: raises ZeroDivisionError on a zero divisor
truediv(a, b) ==
  IF b = 0 THEN [raised |-> TRUE, nan |-> FALSE, value |-> 0]
  ELSE [raised |-> FALSE, nan |-> FALSE, value |-> a \div b]

\* variant: every unit counts once, whatever its size
train_loss_step_unweighted(loss_batches, wloss, batch, batches, weighting) ==
  loss_batches + SumSeq(wloss)

\* the loss accumulation of the training loop
train_loss_step(loss_batches, wloss, batch, batches, weighting) ==
  IF weighting THEN loss_batches + SumSeq(wloss)
  ELSE IF Truthy(batches) THEN loss_batches + SumSeq(wloss) * batch.n_rows
       ELSE loss_batches + SumSeq(wloss)

\* the loss accumulation of the validation loop
val_loss_step(loss_batches_eval, val_loss, batch, batches, weighting) ==
  IF weighting THEN loss_batches_eval + SumSeq(val_loss)
  ELSE IF Truthy(batches) THEN loss_batches_eval + SumSeq(val_loss) * batch.n_rows
       ELSE loss_batches_eval + SumSeq(val_loss)

\* variant: with weighting, one pair per chunk
val_feed_per_chunk(batch, outputs, output_logits, batches, weighting) ==
  IF weighting
  THEN [gold |-> py_list(batch.labels),
        predicted |-> py_list([i \in 1 .. Len(outputs.logits) |->
                                 argmax(outputs.logits[i])])]
  ELSE IF Truthy(batches)
       THEN [gold |-> py_list(batch.labels),
             predicted |-> py_list([i \in 1 .. Len(outputs.logits) |->
                                      argmax(outputs.logits[i])])]
       ELSE [gold |-> py_int(batch.labels[1]),
             predicted |-> py_int(argmax(output_logits[1]))]

\* variant: the two arguments of add_batch exchanged
val_feed_swapped(batch, outputs, output_logits, batches, weighting) ==
  IF Truthy(batches) /\ ~weighting
  THEN [gold |-> py_list([i \in 1 .. Len(outputs.logits) |->
                            argmax(outputs.logits[i])]),
        predicted |-> py_list(batch.labels)]
  ELSE [gold |-> py_int(argmax(output_logits[1])),
        predicted |-> py_int(batch.labels[1])]

\* the arguments of train_metrics.add_batch in the validation loop
val_feed(batch, outputs, output_logits, batches, weighting) ==
  IF weighting
  THEN [gold |-> py_int(batch.labels[1]),
        predicted |-> py_int(argmax(output_logits[1]))]
  ELSE IF Truthy(batches)
       THEN [gold |-> py_list(batch.labels),
             predicted |-> py_list([i \in 1 .. Len(outputs.logits) |->
                                      argmax(outputs.logits[i])])]
       ELSE [gold |-> py_int(batch.labels[1]),
        predicted |-> py_int(argmax(output_logits[1]))]

\* the divisors of the return statement
train_divisor(rows, gpus) == rows * gpus
dev_divisor(rows, gpus) == rows * gpus

\* ------------------------------------------------------- test pass, by step
\* the loss accumulation of the test loop
test_loss_step(test_loss, wloss, test_batch, batch_size, weighting) ==
  IF weighting THEN test_loss + SumSeq(wloss)
  ELSE IF Truthy(batch_size) THEN test_loss + SumSeq(wloss) * test_batch.n_rows
       ELSE test_loss + SumSeq(wloss)

\* the arguments of test_metrics.add_batch
test_feed(test_batch, outputs, output_logits, batch_size, weighting) ==
  IF weighting
  THEN [gold |-> py_int(test_batch.labels[1]),
        predicted |-> py_int(argmax(output_logits[1]))]
  ELSE IF Truthy(batch_size)
       THEN [gold |-> py_list(test_batch.labels),
             predicted |-> py_list([i \in 1 .. Len(outputs.logits) |->
                                      argmax(outputs.logits[i])])]
       ELSE [gold |-> py_int(test_batch.labels[1]),
        predicted |-> py_int(argmax(output_logits[1]))]

\* the divisor of the test loss: len(test_loader) * GPUS
test_divisor(batch_size, rows, gpus) == LoaderLen(batch_size, rows) * gpus

\* ------------------------------------------------------------ history values
NoSeen ==
  [gold |-> [c \in Classes |-> 0], pred |-> [c \in Classes |-> 0],
   correct |-> 0, pairs |-> 0, multi |-> FALSE]

\* some document of the unit has more than one chunk
HasMulti(items) == \E i \in 1 .. Len(items) : items[i].chunks > 1

\* the decision taken for each document of a unit: its label and the class
\* its logits (combined, or its row of the batch) are highest for
Decisions(items, outputs, output_logits, batch_size) ==
  [i \in 1 .. Len(items) |->
     [gold |-> items[i].label,
      pred |-> IF Truthy(batch_size) THEN argmax(outputs.logits[i])
               ELSE argmax(output_logits[1])]]

RECURSIVE See(_, _)
See(h, ds) ==
  IF ds = << >> THEN h
  ELSE LET d == Head(ds)
       IN  See([h EXCEPT !.gold[d.gold] = @ + 1, !.pred[d.pred] = @ + 1,
                         !.correct = @ + (IF d.gold = d.pred THEN 1 ELSE 0)],
               Tail(ds))

NoCall ==
  [batches |-> 0, weighting |-> FALSE, loss_batches |-> 0,
   loss_batches_eval |-> 0, train_metrics |-> TaskMetrics, left |-> 0]
NoRet ==
  [tr_loss |-> [raised |-> FALSE, nan |-> FALSE, value |-> 0],
   val_loss |-> [raised |-> FALSE, nan |-> FALSE, value |-> 0],
   val_metrics |-> TaskMetrics]
NoTest ==
  [test_loss |-> 0, test_metrics |-> TaskMetrics, left |-> 0,
   written |-> [raised |-> FALSE, nan |-> FALSE, value |-> 0]]
NoLosses == [train |-> {}, val |-> {}]
NoProbe ==
  [batch |-> [n_rows |-> 0, labels |-> << >>], logits |-> << >>, batches |-> 0,
   weighting_method |-> FALSE, called |-> FALSE, weights |-> << >>,
   wloss |-> << >>, output_logits |-> << >>]
NoShadow == [loss |-> 0, metrics |-> TaskMetrics]
NoNet == [training |-> FALSE, opt_steps |-> 0, sched_steps |-> 0, backwards |-> 0]

\* variant: the batch_size branch leaves config.weighting alone
resolved_weighting_kept(batch_size, weighting, wsv) ==
  IF Truthy(batch_size) THEN weighting
  ELSE IF wsv = "None" THEN FALSE
       ELSE weighting

\* variant: the branch for an absent window leaves config.weighting alone
resolved_weighting_no_window(batch_size, weighting, wsv) ==
  IF Truthy(batch_size) THEN FALSE ELSE weighting

\* ---------------------------------------------------- __main__: configuration
\* config.weighting after the batch_size / window branches
resolved_weighting(batch_size, weighting, wsv) ==
  IF Truthy(batch_size) THEN FALSE
  ELSE IF wsv = "None" THEN FALSE
       ELSE weighting

\* what the two branches print
resolution_messages(batch_size, weighting, wsv) ==
  IF Truthy(batch_size)
  THEN (IF weighting THEN {"incompatible_with_batching"} ELSE {})
       \cup (IF wsv # "None" THEN {"window_cut"} ELSE {"collating"})
  ELSE IF wsv = "None"
       THEN {"no_window"}
            \cup (IF weighting THEN {"no_weighting_batch1"} ELSE {})
       ELSE {}

\* the model's and optimizer's state after one training unit:
\* wloss.sum().backward(); optimizer.step(); lr_scheduler.step(); zero_grad()
train_step_net(n) ==
  [n EXCEPT !.backwards = @ + 1, !.opt_steps = @ + 1, !.sched_steps = @ + 1]

\* variant: a validation unit steps the optimizer like a training unit
eval_step_net_trains(n) ==
  [n EXCEPT !.backwards = @ + 1, !.opt_steps = @ + 1, !.sched_steps = @ + 1]

\* ... and after one validation or test unit: a forward pass under no_grad
eval_step_net(n) == n

ArgvSpace ==
  [batch_size : 0 .. MaxBatch, weighting : BOOLEAN, epochs : 0 .. MaxEpochs]

Init ==
  /\ pc = "start"
  /\ err = "none"
  /\ argv \in ArgvSpace
  /\ config = argv
  /\ ws \in {"None", "windowed"}
  /\ num_rows \in [{"train", "validation", "test"} -> 0 .. MaxDocs]
  /\ device_count \in 0 .. MaxDevices
  /\ printed = {}
  /\ net = NoNet
  /\ epoch = 0
  /\ call = NoCall
  /\ ret = NoRet
  /\ test = NoTest
  /\ calls = {}
  /\ seen = NoSeen
  /\ shadow = NoShadow
  /\ eval_seen = {}
  /\ losses = NoLosses
  /\ probe = NoProbe

\* if config.batch_size: ... else: ...  (the three DataLoaders are built)
ResolveConfig ==
  /\ pc = "start"
  /\ config' = [config EXCEPT
                  !.weighting = resolved_weighting(config.batch_size, @, ws)]
  /\ printed' = printed
                  \cup resolution_messages(config.batch_size, config.weighting, ws)
  /\ pc' = "setup"
  /\ UNCHANGED << probe, losses, err, argv, ws, num_rows, device_count, net, epoch, call, ret,
                  test, calls, seen, shadow, eval_seen >>

\* scheduler, DataParallel, val_split = round(val.num_rows / train.num_rows, 1),
\* the metrics file
Setup ==
  /\ pc = "setup"
  /\ IF truediv(num_rows["validation"], num_rows["train"]).raised
     THEN pc' = "error" /\ err' = "ZeroDivisionError"
     ELSE pc' = "epoch" /\ err' = err
  /\ epoch' = 0
  /\ UNCHANGED << probe, losses, argv, config, ws, num_rows, device_count, printed, net, call,
                  ret, test, calls, seen, shadow, eval_seen >>

\* for epoch in range(config.epochs): training(...) is entered:
\* model.train(); loss_batches = 0; train_metrics = TaskMetrics(...)
BeginTraining ==
  /\ pc = "epoch"
  /\ epoch < config.epochs
  /\ net' = [net EXCEPT !.training = TRUE]
  /\ call' = [batches |-> config.batch_size, weighting |-> config.weighting,
              loss_batches |-> 0, loss_batches_eval |-> 0,
              train_metrics |-> TaskMetrics, left |-> num_rows["train"]]
  /\ seen' = NoSeen
  /\ losses' = NoLosses
  /\ eval_seen' = {}
  /\ pc' = "train"
  /\ UNCHANGED << probe, err, argv, config, ws, num_rows, device_count, printed, epoch,
                  ret, test, calls, shadow >>

\* one iteration of: for batch in train_set
TrainUnit ==
  /\ pc = "train"
  /\ call.left > 0
  /\ \E items \in NextItems(config.batch_size, ws, call.left) :
       LET batch == Collate(config.batch_size, items)
       IN  \E logits \in [1 .. batch.n_rows -> LogitVectors] :
             \E outputs \in {forward(batch, logits, device_count)} :
             \E r \in {_compute_wloss(batch, outputs, call.batches,
                                      call.weighting)} :
                 /\ call' = [call EXCEPT
                      !.loss_batches =
                         train_loss_step(@, r.wloss, batch, call.batches,
                                         call.weighting),
                      !.left = @ - Len(items)]
                 /\ net' = train_step_net(net)
                 /\ losses' = [losses EXCEPT !.train = @ \cup {SumSeq(r.wloss)}]
                 /\ calls' = calls \cup {[batches |-> Truthy(call.batches),
                                          weighting_method |-> call.weighting]}
  /\ UNCHANGED << probe, pc, err, argv, config, ws, num_rows, device_count, printed,
                  epoch, ret, test, seen, shadow, eval_seen >>

\* the training loop is exhausted: model.eval(); loss_batches_eval = 0
BeginValidation ==
  /\ pc = "train"
  /\ call.left = 0
  /\ net' = [net EXCEPT !.training = FALSE]
  /\ call' = [call EXCEPT !.loss_batches_eval = 0, !.left = num_rows["validation"]]
  /\ pc' = "validate"
  /\ UNCHANGED << probe, losses, err, argv, config, ws, num_rows, device_count, printed, epoch,
                  ret, test, calls, seen, shadow, eval_seen >>

\* one iteration of: for batch in dev_set
ValUnit ==
  /\ pc = "validate"
  /\ call.left > 0
  /\ \E items \in NextItems(config.batch_size, ws, call.left) :
       LET batch == Collate(config.batch_size, items)
       IN  \E logits \in [1 .. batch.n_rows -> LogitVectors] :
             \E outputs \in {forward(batch, logits, device_count)} :
             \E r \in {_compute_wloss(batch, outputs, call.batches,
                                      call.weighting)} :
             \E feed \in {val_feed(batch, outputs, r.output_logits,
                                   call.batches, call.weighting)} :
                 /\ call' = [call EXCEPT
                      !.loss_batches_eval =
                         val_loss_step(@, r.wloss, batch, call.batches,
                                       call.weighting),
                      !.train_metrics = add_batch(@, feed.gold, feed.predicted),
                      !.left = @ - Len(items)]
                 /\ net' = eval_step_net(net)
                 /\ losses' = [losses EXCEPT !.val = @ \cup {SumSeq(r.wloss)}]
                 /\ eval_seen' = eval_seen \cup {net.opt_steps}
                 /\ calls' = calls \cup {[batches |-> Truthy(call.batches),
                                          weighting_method |-> call.weighting]}
                 /\ seen' = [See(seen, Decisions(items, outputs, r.output_logits,
                                                 config.batch_size))
                               EXCEPT !.pairs = @ + Len(AsList(feed.gold)),
                                      !.multi = @ \/ HasMulti(items)]
  /\ UNCHANGED << probe, pc, err, argv, config, ws, num_rows, device_count, printed,
                  epoch, ret, test, shadow >>

\* return loss_batches / (len(train_set.sampler) * GPUS),
\*        loss_batches_eval / (len(dev_set.sampler) * GPUS), train_metrics.compute()
Return ==
  /\ pc = "validate"
  /\ call.left = 0
  /\ LET tr == truediv(call.loss_batches, train_divisor(num_rows["train"], GPUS))
         va == truediv(call.loss_batches_eval,
                       dev_divisor(num_rows["validation"], GPUS))
     IN  IF tr.raised \/ va.raised
         THEN pc' = "error" /\ err' = "ZeroDivisionError" /\ ret' = ret
         ELSE /\ pc' = "returned"
              /\ err' = err
              /\ ret' = [tr_loss |-> tr, val_loss |-> va,
                         val_metrics |-> call.train_metrics]
  /\ call' = NoCall
  /\ UNCHANGED << probe, losses, argv, config, ws, num_rows, device_count, printed, net, epoch,
                  test, calls, seen, shadow, eval_seen >>

\* the rest of the epoch loop's body: the losses and metrics go to the
\* tensorboard writers, the csv row and the checkpoint, and are not read again
EpochEnd ==
  /\ pc = "returned"
  /\ epoch' = epoch + 1
  /\ ret' = NoRet
  /\ losses' = NoLosses
  /\ pc' = "epoch"
  /\ UNCHANGED << probe, err, argv, config, ws, num_rows, device_count, printed, net,
                  call, test, calls, seen, shadow, eval_seen >>

\* the epoch loop is over: model.eval(); test_metrics = TaskMetrics(...);
\* test_loss = 0
BeginTest ==
  /\ pc = "epoch"
  /\ epoch >= config.epochs
  /\ net' = [net EXCEPT !.training = FALSE]
  /\ test' = [test_loss |-> 0, test_metrics |-> TaskMetrics,
              left |-> num_rows["test"], written |-> NoTest.written]
  /\ seen' = NoSeen
  /\ shadow' = NoShadow
  /\ eval_seen' = {}
  /\ pc' = "test"
  /\ UNCHANGED << probe, losses, err, argv, config, ws, num_rows, device_count, printed, epoch,
                  call, ret, calls >>

\* one iteration of: for test_batch in test_loader
TestUnit ==
  /\ pc = "test"
  /\ test.left > 0
  /\ \E items \in NextItems(config.batch_size, ws, test.left) :
       LET test_batch == Collate(config.batch_size, items)
       IN  \E logits \in [1 .. test_batch.n_rows -> LogitVectors] :
             \E outputs \in {forward(test_batch, logits, device_count)} :
             \E r \in {_compute_wloss(test_batch, outputs, config.batch_size,
                                      config.weighting)} :
             \E feed \in {test_feed(test_batch, outputs, r.output_logits,
                                    config.batch_size, config.weighting)} :
             \E vfeed \in {val_feed(test_batch, outputs, r.output_logits,
                                    config.batch_size, config.weighting)} :
                 /\ test' = [test EXCEPT
                      !.test_loss =
                         test_loss_step(@, r.wloss, test_batch, config.batch_size,
                                        config.weighting),
                      !.test_metrics = add_batch(@, feed.gold, feed.predicted),
                      !.left = @ - Len(items)]
                 /\ net' = eval_step_net(net)
                 /\ eval_seen' = eval_seen \cup {net.opt_steps}
                 /\ calls' = calls \cup {[batches |-> Truthy(config.batch_size),
                                          weighting_method |-> config.weighting]}
                 /\ seen' = [See(seen, Decisions(items, outputs, r.output_logits,
                                                 config.batch_size))
                               EXCEPT !.pairs = @ + Len(AsList(feed.gold)),
                                      !.multi = @ \/ HasMulti(items)]
                 /\ shadow' =
                      [loss |-> val_loss_step(shadow.loss, r.wloss, test_batch,
                                              config.batch_size, config.weighting),
                       metrics |-> add_batch(shadow.metrics, vfeed.gold,
                                             vfeed.predicted)]
  /\ UNCHANGED << probe, losses, pc, err, argv, config, ws, num_rows, device_count, printed,
                  epoch, call, ret >>

\* eval_metrics = test_metrics.compute();
\* writer_test.add_scalar('Test loss', test_loss / (len(test_loader) * GPUS))
TestEnd ==
  /\ pc = "test"
  /\ test.left = 0
  /\ LET w == truediv(test.test_loss,
                      test_divisor(config.batch_size, num_rows["test"], GPUS))
     IN  IF w.raised
         THEN pc' = "error" /\ err' = "ZeroDivisionError" /\ test' = test
         ELSE pc' = "written" /\ err' = err /\ test' = [test EXCEPT !.written = w]
  /\ UNCHANGED << probe, losses, argv, config, ws, num_rows, device_count, printed, net, epoch,
                  call, ret, calls, seen, shadow, eval_seen >>

\* model.module.save_pretrained(...): only a DataParallel wrapper has .module
Finish ==
  /\ pc = "written"
  /\ IF device_count > 1
     THEN pc' = "done" /\ err' = err
     ELSE pc' = "error" /\ err' = "AttributeError"
  /\ UNCHANGED << probe, losses, argv, config, ws, num_rows, device_count, printed, net, epoch,
                  call, ret, test, calls, seen, shadow, eval_seen >>

Next ==
  \/ ResolveConfig
  \/ Setup
  \/ BeginTraining
  \/ TrainUnit
  \/ BeginValidation
  \/ ValUnit
  \/ Return
  \/ EpochEnd
  \/ BeginTest
  \/ TestUnit
  \/ TestEnd
  \/ Finish

Spec == Init /\ [][Next]_vars

\* ------------------------------------------- training() called on its own
\* the argument pairs (batches, weighting) __main__ can pass
ResolvedConfigs(wsv) ==
  {c \in ArgvSpace :
     c.weighting = resolved_weighting(c.batch_size, c.weighting, wsv)}

\* training(train_set, dev_set, ...) has just been entered, on any two streams
InitTraining ==
  /\ pc = "train"
  /\ err = "none"
  /\ ws \in {"None", "windowed"}
  /\ config \in ResolvedConfigs(ws)
  /\ config.epochs = 1
  /\ argv = config
  /\ num_rows \in [{"train", "validation", "test"} -> 0 .. MaxDocs]
  /\ num_rows["test"] = 0
  /\ device_count \in 0 .. MaxDevices
  /\ printed = {}
  /\ net = [NoNet EXCEPT !.training = TRUE]
  /\ epoch = 0
  /\ call = [batches |-> config.batch_size, weighting |-> config.weighting,
             loss_batches |-> 0, loss_batches_eval |-> 0,
             train_metrics |-> TaskMetrics, left |-> num_rows["train"]]
  /\ ret = NoRet
  /\ test = NoTest
  /\ calls = {}
  /\ seen = NoSeen
  /\ shadow = NoShadow
  /\ eval_seen = {}
  /\ losses = NoLosses
  /\ probe = NoProbe

NextTraining ==
  \/ TrainUnit
  \/ BeginValidation
  \/ ValUnit
  \/ Return

SpecTraining == InitTraining /\ [][NextTraining]_vars

\* -------------------------------------- _compute_wloss called on its own
\* any unit a loader can yield, any logits, and a pair (batches, weighting)
\* __main__ can pass
InitCombine ==
  /\ pc = "probe"
  /\ err = "none"
  /\ ws \in {"None", "windowed"}
  /\ config \in ResolvedConfigs(ws)
  /\ config.epochs = 1
  /\ argv = config
  /\ num_rows = [s \in {"train", "validation", "test"} |-> 0]
  /\ device_count \in 0 .. MaxDevices
  /\ printed = {}
  /\ net = NoNet
  /\ epoch = 0
  /\ call = NoCall
  /\ ret = NoRet
  /\ test = NoTest
  /\ calls = {}
  /\ seen = NoSeen
  /\ shadow = NoShadow
  /\ eval_seen = {}
  /\ losses = NoLosses
  /\ \E left \in 1 .. MaxDocs :
     \E items \in NextItems(config.batch_size, ws, left) :
       LET batch == Collate(config.batch_size, items)
       IN  \E logits \in [1 .. batch.n_rows -> LogitVectors] :
             probe = [NoProbe EXCEPT !.batch = batch, !.logits = logits,
                                     !.batches = config.batch_size,
                                     !.weighting_method = config.weighting]

\* wloss, output_logits = _compute_wloss(batch, outputs, batches, weighting)
Combine ==
  /\ pc = "probe"
  /\ ~probe.called
  /\ \E outputs \in {forward(probe.batch, probe.logits, device_count)} :
     \E r \in {_compute_wloss(probe.batch, outputs, probe.batches,
                              probe.weighting_method)} :
       probe' = [probe EXCEPT
                   !.called = TRUE,
                   !.weights = IF probe.weighting_method
                               THEN wloss_weights(probe.batch)
                               ELSE IF Truthy(probe.batches) THEN << >>
                                    ELSE ones_weights(probe.batch),
                   !.wloss = r.wloss,
                   !.output_logits = r.output_logits]
  /\ calls' = calls \cup {[batches |-> Truthy(probe.batches),
                           weighting_method |-> probe.weighting_method]}
  /\ UNCHANGED << pc, err, argv, config, ws, num_rows, device_count, printed,
                  net, epoch, call, ret, test, seen, shadow, eval_seen, losses >>

NextCombine == Combine

SpecCombine == InitCombine /\ [][NextCombine]_vars

\* ------------------------------------------------------------------ claims
\* the request that conflicts: a batch size together with weighting
ConflictRequested == Truthy(argv.batch_size) /\ argv.weighting

\* C1: once the configuration is resolved, a batch size and weighting are
\* never both set; when both were requested, weighting is off, the warning
\* has been printed and no error was raised by the resolution; and
\* _compute_wloss is never invoked with batches and weighting_method both truthy.
C1_ConflictResolved ==
  /\ pc # "start" => ~(Truthy(config.batch_size) /\ config.weighting)
  /\ (pc # "start" /\ ConflictRequested) =>
       /\ config.weighting = FALSE
       /\ "incompatible_with_batching" \in printed
       /\ (pc = "setup" => err = "none")
  /\ \A c \in calls : ~(c.batches /\ c.weighting_method)

\* the conflicting request was made and the run went on into _compute_wloss
C1_Witness ==
  /\ ConflictRequested
  /\ [batches |-> TRUE, weighting_method |-> FALSE] \in calls

\* C2: during validation the number of (gold, predicted) pairs fed to the
\* accumulator equals the number of documents consumed, and at the end of
\* the VALIDATE phase it equals the number of documents of the stream.
C2_OnePairPerDocument ==
  /\ pc = "validate" => seen.pairs = num_rows["validation"] - call.left
  /\ pc = "returned" => seen.pairs = num_rows["validation"]

\* a weighted validation over documents of several chunks has finished
C2_Witness ==
  /\ pc = "returned"
  /\ config.weighting
  /\ seen.multi
  /\ seen.pairs = MaxDocs

\* the optimizer steps that the training phases finished so far amount to
TrainedSteps ==
  IF pc \in {"validate", "returned"}
  THEN (epoch + 1) * LoaderLen(config.batch_size, num_rows["train"])
  ELSE config.epochs * LoaderLen(config.batch_size, num_rows["train"])

\* C3: in the VALIDATE phase and in the test pass the model is in inference
\* mode, the backward, optimizer and scheduler counters all stand at the
\* number of training units of the finished TRAIN phases, and every
\* validation or test unit saw exactly that optimizer state.
C3_TrainThenValidate ==
  pc \in {"validate", "returned", "test", "written", "done"} =>
    /\ ~net.training
    /\ net.opt_steps = TrainedSteps
    /\ net.sched_steps = TrainedSteps
    /\ net.backwards = TrainedSteps
    /\ eval_seen \subseteq {TrainedSteps}

\* a call with two training units and some validation units has returned
C3_Witness ==
  /\ pc = "returned"
  /\ net.opt_steps = 2
  /\ eval_seen = {2}

\* C4: the test pass feeds the pairs the validation step would feed on the
\* same units, and writes the loss the return statement of training() would
\* compute from them (total / (document count * GPUS)).
C4_TestEqualsValidate ==
  pc = "written" =>
    /\ test.test_metrics = shadow.metrics
    /\ test.written =
         truediv(shadow.loss, dev_divisor(num_rows["test"], GPUS))

\* C5: training() on an empty training stream never returns: it ends with
\* ZeroDivisionError; and a returned training loss is never nan.
C5_EmptyTrainRaises ==
  /\ num_rows["train"] = 0 => pc # "returned"
  /\ pc = "returned" => (~ret.tr_loss.nan /\ ~ret.tr_loss.raised)
  /\ pc = "error" => err = "ZeroDivisionError"

\* the call on an empty training stream has ended, in ZeroDivisionError
C5_Witness ==
  /\ num_rows["train"] = 0
  /\ num_rows["validation"] > 0
  /\ pc = "error"
  /\ err = "ZeroDivisionError"

\* C6: with weighting, for a unit of M > 1 chunks the first weight is at
\* least every later weight and the weights sum to more than 0.
C6_FirstChunkHeaviest ==
  (probe.called /\ probe.weighting_method /\ probe.batch.n_rows > 1) =>
    /\ Len(probe.weights) = probe.batch.n_rows
    /\ \A i \in 2 .. Len(probe.weights) : probe.weights[1] >= probe.weights[i]
    /\ SumSeq(probe.weights) > 0

\* _compute_wloss was called with weighting on a unit of MaxChunks chunks
C6_Witness ==
  /\ probe.called
  /\ probe.weighting_method
  /\ probe.batch.n_rows = MaxChunks
  /\ MaxChunks > 1

\* C7: with weighting, for a unit of one chunk the weight vector is [1.0]
\* and the result is the chunk's own logits, with the loss and logits that
\* the call without weighting gives.
C7_SingleChunkIdentity ==
  (probe.called /\ probe.weighting_method /\ probe.batch.n_rows = 1) =>
    /\ probe.weights = << Scale >>
    /\ probe.output_logits = << probe.logits[1] >>
    /\ LET plain == _compute_wloss(probe.batch,
                                   forward(probe.batch, probe.logits, device_count),
                                   0, FALSE)
       IN  /\ probe.output_logits = plain.output_logits
           /\ probe.wloss = plain.wloss

\* _compute_wloss was called with weighting on a unit of one chunk
C7_Witness ==
  /\ probe.called
  /\ probe.weighting_method
  /\ probe.batch.n_rows = 1

\* the counters of accumulator m agree with the decisions h seen so far
Consistent(m, h) ==
  /\ \A c \in Classes : m.tp[c] + m.fn[c] = h.gold[c]
  /\ \A c \in Classes : m.tp[c] + m.fp[c] = h.pred[c]
  /\ SumOver(m.tp, Classes) = h.correct

\* C8: for every class c, tp_c + fn_c is the number of decisions so far with
\* gold = c, tp_c + fp_c the number with predicted = c, and the tp_c sum to
\* the number of correct decisions, for the validation and test accumulators.
C8_ConfusionCounts ==
  /\ pc = "validate" => Consistent(call.train_metrics, seen)
  /\ pc = "returned" => Consistent(ret.val_metrics, seen)
  /\ pc \in {"test", "written"} => Consistent(test.test_metrics, seen)

\* a batched validation has fed one correct and one wrong decision
C8_Witness ==
  /\ pc = "returned"
  /\ Truthy(config.batch_size)
  /\ seen.pairs = 2
  /\ seen.correct = 1

\* C9: with one device, when every unit of a stream has the same loss L,
\* the mean that training() returns for that stream is L.
C9_MeanPerDocument ==
  (pc = "returned" /\ GPUS = 1) =>
    /\ \A L \in losses.train : losses.train = {L} => ret.tr_loss.value = L
    /\ \A L \in losses.val : losses.val = {L} => ret.val_loss.value = L

\* a batched call has returned whose training stream ended in a batch
\* smaller than the batch size and whose validation stream held two units
C9_Witness ==
  /\ pc = "returned"
  /\ GPUS = 1
  /\ config.batch_size = 2
  /\ num_rows["train"] = 1
  /\ num_rows["validation"] = 2
  /\ Cardinality(losses.train) = 1
  /\ Cardinality(losses.val) = 1

\* weighting requested, the window absent, no batch size
AbsentWindowRequest ==
  argv.weighting /\ ws = "None" /\ ~Truthy(argv.batch_size)

\* C10 as stated: weighting requested with an absent window and no batch
\* size still reaches _compute_wloss with weighting enabled.
C10_WeightingStaysOn ==
  AbsentWindowRequest => \A c \in calls : c.weighting_method

\* C10: weighting requested with an absent window and no batch size is
\* switched off with a printed notice, no error is raised by the resolution,
\* and _compute_wloss is only ever invoked without weighting.
C10_WeightingSwitchedOff ==
  (AbsentWindowRequest /\ pc # "start") =>
    /\ config.weighting = FALSE
    /\ "no_weighting_batch1" \in printed
    /\ (pc = "setup" => err = "none")
    /\ \A c \in calls : ~c.weighting_method

\* such a request was made and _compute_wloss has been invoked
C10_Witness ==
  /\ AbsentWindowRequest
  /\ calls # {}

====
